---- MODULE Spec2Model ----
(***************************************************************************)
(* Model of the unblink CV worker (examples/worker-qwen3-vl).              *)
(*                                                                         *)
(*   main.py                          CVWorker: connect, register, listen, *)
(*                                    emit_event, run                      *)
(*   events/process_frame_batch_event.py   download_frame and              *)
(*                                    process_frame_batch_event            *)
(*   test_custom_fps.py               the timestamp computation            *)
(*                                                                         *)
(* Spec   is the worker session (run) against a relay that sends messages  *)
(*        and may close the connection.                                    *)
(* SpecTS is the timestamp computation of test_custom_fps.py as a pure     *)
(*        function over bounded inputs.                                    *)
(***************************************************************************)
EXTENDS Integers, Sequences, FiniteSets, TLC

\* ------------------------------------------------------------------ bounds
MaxMsgs == 3        \* messages the relay sends during one session
MaxFrames == 2      \* frame identifiers in one frame_batch event
MaxN == 10          \* frame counts of the timestamp computation
MaxM == 4           \* merge group sizes of the timestamp computation
KeyLength == 32     \* characters of a key issued by the relay

\* ------------------------------------------------------- program constants
DefaultFps == 2       \* metadata.get('fps', 2.0) and the fallback 2.0
DefaultMergeSize == 2 \* merge_size = 2
KeyPrefixLen == 16    \* self.worker_key[:16]

\* --------------------------------------------------------------- the data
Unset == "None"                      \* Python None in worker_id / worker_key
Keys == {"key-A", "key-B"}           \* keys the relay may issue
WorkerIds == {"worker-1"}
FrameIds == {"f1", "f2"}
ServiceIds == {"cam1", "cam2"}

\* sequences over S of length at most n
RECURSIVE SeqsUpTo(_, _)
SeqsUpTo(S, n) ==
    IF n = 0 THEN {<<>>}
    ELSE LET shorter == SeqsUpTo(S, n - 1)
         IN  shorter \cup {Append(s, x) : s \in {t \in shorter : Len(t) = n - 1}, x \in S}

\* the 'frames' member of an event: absent, a list of identifiers, or a
\* value that is not a list (a number)
FramesValues ==
    {[shape |-> "missing", ids |-> <<>>], [shape |-> "notlist", ids |-> <<>>]}
    \cup {[shape |-> "list", ids |-> s] : s \in SeqsUpTo(FrameIds, MaxFrames)}

\* the 'metadata' member of an event.  fps is a rational <<num, den>>.
MetaFull    == [shape |-> "dict", duration_seconds |-> 5, start_time |-> 10,
                hasFps |-> TRUE, fps |-> <<1, 1>>]
MetaNoFps   == [shape |-> "dict", duration_seconds |-> 5, start_time |-> 0,
                hasFps |-> FALSE, fps |-> <<0, 1>>]
MetaMissing == [shape |-> "missing", duration_seconds |-> 0, start_time |-> 0,
                hasFps |-> FALSE, fps |-> <<0, 1>>]
MetaBadType == [shape |-> "badtype", duration_seconds |-> 0, start_time |-> 0,
                hasFps |-> FALSE, fps |-> <<0, 1>>]
MetaValues == {MetaFull, MetaNoFps, MetaMissing, MetaBadType}

\* the sources of the batches: a service and the metadata it sends
Sources == {<<"cam1", MetaFull>>, <<"cam2", MetaNoFps>>,
            <<"cam1", MetaMissing>>, <<"cam2", MetaBadType>>}

NoEvent == [shape |-> "missing", frames |-> [shape |-> "missing", ids |-> <<>>],
            service_id |-> "-", metadata |-> MetaMissing]

\* the 'data' member of a frame_batch message: absent, {}, a value that is
\* not an object (a non-empty string), or an event object
DataValues ==
    {NoEvent,
     [NoEvent EXCEPT !.shape = "emptydict"],
     [NoEvent EXCEPT !.shape = "nondict"]}
    \cup {[shape |-> "dict", frames |-> f, service_id |-> src[1],
            metadata |-> src[2]] : f \in FramesValues, src \in Sources}

\* the 'data' member of a message of another type: absent, or an object
\* that happens to look like an event
OtherData ==
    {NoEvent,
     [shape |-> "dict", frames |-> [shape |-> "list", ids |-> <<"f1">>],
      service_id |-> "cam1", metadata |-> MetaFull]}

\* inbound messages: the text frames the relay may send
Messages ==
    {[type |-> "registered", worker_id |-> w, key |-> k, data |-> NoEvent] :
        w \in WorkerIds, k \in Keys}
    \cup {[type |-> "frame_batch", worker_id |-> Unset, key |-> Unset, data |-> d] :
            d \in DataValues}
    \cup {[type |-> "other", worker_id |-> Unset, key |-> Unset, data |-> d] :
            d \in OtherData}
    \cup {[type |-> "notjson", worker_id |-> Unset, key |-> Unset, data |-> NoEvent]}

\* what listen remembers of a message for its diagnostics: type and data shape
Seen(m) == [type |-> m.type, shape |-> m.data.shape]
NoMsg == [type |-> "none", shape |-> "missing"]

\* outcomes of one GET /worker/frames/{uuid}; "timeout" stands for every
\* exception requests.get raises (timeout or network error)
FetchOutcomes == {"ok", "empty200", "undecodable", "non200", "timeout"}
\* outcomes of one POST /events
EmitOutcomes == {"200", "non200", "timeout", "neterror"}

NoSummary == [made |-> FALSE, service_id |-> "-", frame_count |-> 0,
              duration_seconds |-> 0]
NoEmit == [id |-> 0, key |-> Unset, status |-> "none", body |-> NoSummary]

\* the temporal preamble: empty, or the span with its two numbers as printed
EmptyPreamble == [empty |-> TRUE, from |-> <<0, 0>>, to |-> <<0, 0>>]
\* what is handed to the inference capability (the video message)
NoCall == [made |-> FALSE, frames |-> <<>>, fps |-> <<0, 1>>,
           preamble |-> EmptyPreamble]

\* ---------------------------------------------------------------- state
VARIABLES
    pc,           \* position of run(): start, register, awaiting, recv,
                  \* fetch, infer, emit, finally, done
    ws,           \* self.ws: "None", "open", "closed"
    conn,         \* the transport: "none", "open", "closed"
    pending,      \* messages sent by the relay and not yet read
    sent,         \* messages the relay has sent
    nRead,        \* messages read so far (the id of the last one read)
    modelLoaded,  \* load_model was called (self.model / self.processor set)
    worker_id,    \* self.worker_id
    worker_key,   \* self.worker_key
    reg,          \* how register ended: "none", "ok", "rejected"
    lastMsg,      \* type and data shape of the message listen read last
    event,        \* the event process_frame_batch_event is working on
    idx,          \* position of the download loop in frames (1-based)
    pil_images,   \* the frames downloaded and decoded so far
    fetchLog,     \* the GET requests of the current batch
    summary,      \* the summary returned by process_frame_batch_event
    curEmits,     \* POST requests issued for the current batch
    lastEmit,     \* the POST request issued for the message read last
    emitLog,      \* ids of the batches a POST was issued for, in order
    inFlight,     \* ids of batches dispatched and not yet finished
    keysUsed,     \* X-Worker-Key values carried by any request so far
    error,        \* the exception run() ends with, "none" if none
    listenEnd,    \* how listen ended: "none", "closed_ok", "closed_err",
                  \* "raised", "interrupted"
    inferArgs,    \* the frames, FPS and preamble of the current inference call
    keyLog,       \* the most characters of a key printed in one output so far
    response,     \* type of the message register took as its response
    tsPc, tsN, tsM, tsDuration, tsFps, tsIndices, tsRaw, tsOut

sessionVars == <<pc, ws, conn, pending, sent, nRead, modelLoaded, worker_id,
                 worker_key, reg, lastMsg, event, idx, pil_images, fetchLog,
                 summary, curEmits, lastEmit, emitLog, inFlight, keysUsed,
                 error, listenEnd, inferArgs, keyLog, response>>
tsVars == <<tsPc, tsN, tsM, tsDuration, tsFps, tsIndices, tsRaw, tsOut>>
vars == <<sessionVars, inferArgs, keyLog,
                   response, tsVars>>

\* ------------------------------------------------ conditions of the code
\* main.py:47  data.get("type") == "registered"
IsRegisteredType(type) == type = "registered"

\* main.py:52-53  a response of any other type is printed; nothing is raised
RejectionRaisesAlways(type) == TRUE
RejectionRaises(type) == FALSE

\* main.py:45-53, 102-103  register reads one message and returns; run()
\* goes on to listen whatever the type of that message
AfterResponseWaitsForReply(type) ==
    IF type = "registered" THEN "recv" ELSE "awaiting"
AfterResponse(type) == "recv"

\* main.py:63  event_type == "frame_batch"
IsFrameBatchAnyType(type) == TRUE
IsFrameBatch(type) == type = "frame_batch"

\* main.py:63  event_type == "frame_batch" and self.worker_key
ShouldDispatchNoKey(type, key) == IsFrameBatch(type)
ShouldDispatch(type, key) == IsFrameBatch(type) /\ key # Unset

\* main.py:65  if event:   (None and {} are falsy)
EventTruthy(data) == data.shape \in {"nondict", "dict"}

\* main.py:58  the next message is read only at the head of the loop
CanReadWhileBusy == pc \in {"recv", "fetch", "infer", "emit"}
CanRead == pc = "recv"

\* process_frame_batch_event.py:12-24  what download_frame returns
DownloadFrame(outcome) ==
    CASE outcome \in {"ok", "undecodable"} -> "bytes"
      [] outcome = "empty200" -> "empty"
      [] OTHER -> "None"

\* process_frame_batch_event.py:57  if jpeg_data:
JpegAlwaysTruthy(jpeg) == TRUE
JpegTruthy(jpeg) == jpeg = "bytes"

\* process_frame_batch_event.py:61  if not pil_images:
NoFramesNeverChecked(images) == FALSE
NoFramesDownloaded(images) == images = <<>>

\* process_frame_batch_event.py:138  "frame_count": len(pil_images)
FrameCountRequested(images) == Len(event.frames.ids)
FrameCount(images) == Len(images)

\* process_frame_batch_event.py:67, 139  metadata.get('duration_seconds', 0)
DurationDefault(md) == 0
DurationOf(md) == IF md.shape = "dict" THEN md.duration_seconds ELSE 0

\* process_frame_batch_event.py:68  metadata.get('start_time', 0)
StartTimeOf(md) == IF md.shape = "dict" THEN md.start_time ELSE 0

\* process_frame_batch_event.py:72  metadata.get('fps', 2.0)
FpsOf(md) == IF md.shape = "dict" /\ md.hasFps THEN md.fps ELSE <<DefaultFps, 1>>

\* process_frame_batch_event.py:59  pil_images.append(pil_image)
PrependImage(images, uuid) == <<uuid>> \o images
AppendImage(images, uuid) == Append(images, uuid)

\* process_frame_batch_event.py:14 and main.py:88  "X-Worker-Key": worker_key
HeaderKeySendsId(key) == worker_id
HeaderKey(key) == key

\* f"{x:.1f}" of a whole number of seconds: <<integer part, first decimal>>
Fmt1(x) == <<x, 0>>

\* process_frame_batch_event.py:75-80  the temporal context text
TemporalContextAlways(start_time, duration_seconds) ==
    [empty |-> FALSE, from |-> Fmt1(start_time),
     to |-> Fmt1(start_time + duration_seconds)]
TemporalContext(start_time, duration_seconds) ==
    IF start_time > 0
      THEN [empty |-> FALSE, from |-> Fmt1(start_time),
            to |-> Fmt1(start_time + duration_seconds)]
      ELSE EmptyPreamble

\* process_frame_batch_event.py:84-97  the video message: all downloaded
\* frames, raw_fps from the metadata, the prompt with the temporal context
VideoMessage(images, md) ==
    [made |-> TRUE, frames |-> images, fps |-> FpsOf(md),
     preamble |-> TemporalContext(StartTimeOf(md), DurationOf(md))]

\* main.py:51  print(f"[Worker] Key: {self.worker_key[:16]}...")
Min(a, b) == IF a < b THEN a ELSE b
Max(a, b) == IF a > b THEN a ELSE b
PrintedKeyPrefix(key) == Min(KeyPrefixLen, KeyLength)

\* main.py:60  print(json.dumps(data, indent=2)): the whole message, with
\* the key member of a "registered" message
PrintedMessage(m) == IF m.type = "registered" THEN KeyLength ELSE 0

\* main.py:107  if self.ws:
ShouldCloseOnSuccess(w) == w # "None" /\ error = "none"
ShouldClose(w) == w # "None"

\* main.py:96  except Exception: a failed POST never raises out of emit_event
EmitRaisesOnException(outcome) == outcome \in {"timeout", "neterror"}
EmitRaises(outcome) == FALSE

\* main.py:77  except websockets.exceptions.ConnectionClosed: the abnormal
\* close raised by the iteration is caught, like the normal end of iteration
ClosePropagatesAbnormal(kind) == kind = "closed_err"
ClosePropagates(kind) == FALSE

\* the session state of the specification's state machine
SessionState ==
    CASE pc = "start" -> "Disconnected"
      [] pc \in {"register", "awaiting"} -> "Connected"
      [] pc \in {"recv", "fetch", "infer", "emit"} -> "Listening"
      [] OTHER -> IF error = "none" THEN "Closed" ELSE "Errored"

\* ---------------------------------------------------------------- Init
TSIdle ==
    /\ tsPc = "idle" /\ tsN = 1 /\ tsM = 1 /\ tsDuration = 0
    /\ tsFps = <<DefaultFps, 1>> /\ tsIndices = <<>> /\ tsRaw = <<>> /\ tsOut = <<>>

\* main.py:9-18  CVWorker.__init__, and main() with or without load_model
SessionInit ==
    /\ pc = "start" /\ ws = "None" /\ conn = "none"
    /\ pending = 0 /\ sent = 0 /\ nRead = 0
    /\ worker_id = Unset /\ worker_key = Unset /\ reg = "none"
    /\ lastMsg = NoMsg /\ event = NoEvent /\ idx = 1 /\ pil_images = <<>>
    /\ fetchLog = <<>> /\ summary = NoSummary /\ curEmits = 0
    /\ lastEmit = NoEmit /\ emitLog = <<>> /\ inFlight = {} /\ keysUsed = {}
    /\ error = "none" /\ listenEnd = "none"
    /\ inferArgs = NoCall /\ keyLog = 0 /\ response = "none"

Init ==
    /\ SessionInit
    /\ modelLoaded \in BOOLEAN
    /\ TSIdle

\* ------------------------------------------------------------ the relay
RelaySend ==
    /\ conn = "open" /\ sent < MaxMsgs
    /\ sent' = sent + 1 /\ pending' = pending + 1
    /\ UNCHANGED <<pc, ws, conn, nRead, modelLoaded, worker_id, worker_key, reg,
                   lastMsg, event, idx, pil_images, fetchLog, summary, curEmits,
                   lastEmit, emitLog, inFlight, keysUsed, error, listenEnd, inferArgs, keyLog,
                   response, tsVars>>

RelayClose ==
    /\ conn = "open"
    /\ conn' = "closed"
    /\ UNCHANGED <<pc, ws, pending, sent, nRead, modelLoaded, worker_id,
                   worker_key, reg, lastMsg, event, idx, pil_images, fetchLog,
                   summary, curEmits, lastEmit, emitLog, inFlight, keysUsed,
                   error, listenEnd, inferArgs, keyLog,
                   response, tsVars>>

\* ------------------------------------------------------------ the worker
\* an exception leaves run() through its finally clause (main.py:104-108)
Raise(e) == pc' = "finally" /\ error' = e

\* main.py:35-37  connect
Connect ==
    /\ pc = "start"
    /\ \/ /\ ws' = "open" /\ conn' = "open" /\ pc' = "register"
          /\ UNCHANGED error
       \/ /\ Raise("ConnectionError")
          /\ UNCHANGED <<ws, conn>>
    /\ UNCHANGED <<pending, sent, nRead, modelLoaded, worker_id, worker_key, reg,
                   lastMsg, event, idx, pil_images, fetchLog, summary, curEmits,
                   lastEmit, emitLog, inFlight, keysUsed, listenEnd, inferArgs, keyLog,
                   response, tsVars>>

\* main.py:40-44  register: send the registration request
RegisterSend ==
    /\ pc = "register"
    /\ IF conn = "open"
         THEN pc' = "awaiting" /\ UNCHANGED error
         ELSE Raise("ConnectionClosed")
    /\ UNCHANGED <<ws, conn, pending, sent, nRead, modelLoaded, worker_id,
                   worker_key, reg, lastMsg, event, idx, pil_images, fetchLog,
                   summary, curEmits, lastEmit, emitLog, inFlight, keysUsed,
                   listenEnd, inferArgs, keyLog,
                   response, tsVars>>

\* main.py:45-53  register: the next inbound message is taken as the response
RegisterRecv(m) ==
    /\ pc = "awaiting" /\ pending > 0
    /\ pending' = pending - 1 /\ nRead' = nRead + 1
    /\ response' = m.type
    /\ IF m.type = "notjson"
         THEN /\ Raise("JSONDecodeError")
              /\ UNCHANGED <<worker_id, worker_key, reg, keyLog>>
         ELSE IF IsRegisteredType(m.type)
           THEN /\ worker_id' = m.worker_id /\ worker_key' = m.key
                /\ keyLog' = Max(keyLog, PrintedKeyPrefix(m.key))
                /\ reg' = "ok" /\ pc' = AfterResponse(m.type)
                /\ UNCHANGED error
           ELSE /\ reg' = "rejected"
                /\ IF RejectionRaises(m.type)
                     THEN Raise("RegistrationError")
                     ELSE pc' = AfterResponse(m.type) /\ UNCHANGED error
                /\ UNCHANGED <<worker_id, worker_key, keyLog>>
    /\ UNCHANGED <<ws, conn, sent, modelLoaded, lastMsg, event, idx, pil_images,
                   fetchLog, summary, curEmits, lastEmit, emitLog, inFlight,
                   keysUsed, listenEnd, inferArgs, tsVars>>

\* main.py:45  recv() on a connection that closed before a response arrived
RegisterClosed ==
    /\ pc = "awaiting" /\ pending = 0 /\ conn = "closed"
    /\ Raise("ConnectionClosed")
    /\ UNCHANGED <<ws, conn, pending, sent, nRead, modelLoaded, worker_id,
                   worker_key, reg, lastMsg, event, idx, pil_images, fetchLog,
                   summary, curEmits, lastEmit, emitLog, inFlight, keysUsed,
                   listenEnd, inferArgs, keyLog,
                   response, tsVars>>

\* main.py:58-73 and process_frame_batch_event.py:47-62  one iteration of
\* the listen loop up to its first suspension point
ListenRecv(m) ==
    /\ CanRead /\ pc \in {"recv", "fetch", "infer", "emit"} /\ pending > 0
    /\ pending' = pending - 1 /\ nRead' = nRead + 1
    /\ lastMsg' = Seen(m) /\ lastEmit' = NoEmit
    /\ keyLog' = IF m.type = "notjson" THEN keyLog
                                       ELSE Max(keyLog, PrintedMessage(m))
    /\ IF m.type = "notjson"
         THEN /\ Raise("JSONDecodeError") /\ listenEnd' = "raised"
              /\ UNCHANGED <<event, idx, pil_images, fetchLog, summary,
                             curEmits, inFlight, inferArgs>>
         ELSE IF ShouldDispatch(m.type, worker_key) /\ EventTruthy(m.data)
           THEN /\ event' = m.data /\ idx' = 1 /\ pil_images' = <<>>
                /\ fetchLog' = <<>> /\ summary' = NoSummary /\ curEmits' = 0
                /\ inferArgs' =
                      IF /\ m.data.shape = "dict" /\ m.data.frames.shape # "notlist"
                         /\ m.data.frames.ids = <<>> /\ ~NoFramesDownloaded(<<>>)
                        THEN VideoMessage(<<>>, m.data.metadata)
                        ELSE NoCall
                /\ IF m.data.shape = "nondict"
                     THEN /\ Raise("AttributeError") /\ listenEnd' = "raised"
                          /\ UNCHANGED inFlight
                     ELSE IF m.data.frames.shape = "notlist"
                       THEN /\ Raise("TypeError") /\ listenEnd' = "raised"
                            /\ UNCHANGED inFlight
                       ELSE IF m.data.frames.ids = <<>>
                         THEN /\ IF NoFramesDownloaded(<<>>)
                                   THEN /\ Raise("ValueError")
                                        /\ listenEnd' = "raised"
                                        /\ UNCHANGED inFlight
                                   ELSE /\ pc' = "infer"
                                        /\ inFlight' = inFlight \cup {nRead + 1}
                                        /\ UNCHANGED <<error, listenEnd>>
                         ELSE /\ pc' = "fetch"
                              /\ inFlight' = inFlight \cup {nRead + 1}
                              /\ UNCHANGED <<error, listenEnd>>
           ELSE UNCHANGED <<pc, error, listenEnd, event, idx, pil_images,
                            fetchLog, summary, curEmits, inFlight, inferArgs>>
    /\ UNCHANGED <<ws, conn, sent, modelLoaded, worker_id, worker_key, reg,
                   emitLog, keysUsed, response, tsVars>>

\* how the relay's close reaches the worker: with a normal close code, or
\* abnormally (error code, or the transport dropped)
CloseKinds == {"closed_ok", "closed_err"}

\* main.py:58, 77-78  the iteration ends when the connection is closed:
\* silently on a normal close, with ConnectionClosed on an abnormal one
ListenClosed(kind) ==
    /\ pc = "recv" /\ pending = 0 /\ conn = "closed"
    /\ listenEnd' = kind
    /\ IF ClosePropagates(kind)
         THEN Raise("ConnectionClosed")
         ELSE pc' = "finally" /\ UNCHANGED error
    /\ UNCHANGED <<ws, conn, pending, sent, nRead, modelLoaded, worker_id,
                   worker_key, reg, lastMsg, event, idx, pil_images, fetchLog,
                   summary, curEmits, lastEmit, emitLog, inFlight, keysUsed,
                   inferArgs, keyLog,
                   response, tsVars>>

\* process_frame_batch_event.py:55-81  one turn of the download loop; after
\* the last frame, the empty check and the reading of the metadata
FetchFrame(outcome) ==
    /\ pc = "fetch" /\ idx <= Len(event.frames.ids)
    /\ LET uuid == event.frames.ids[idx]
           jpeg == DownloadFrame(outcome)
           images == IF JpegTruthy(jpeg) THEN AppendImage(pil_images, uuid)
                                         ELSE pil_images
       IN  /\ fetchLog' = Append(fetchLog, [uuid |-> uuid,
                                            key |-> HeaderKey(worker_key),
                                            outcome |-> outcome])
           /\ keysUsed' = keysUsed \cup {HeaderKey(worker_key)}
           /\ IF JpegTruthy(jpeg) /\ outcome # "ok"
                THEN /\ Raise("UnidentifiedImageError") /\ listenEnd' = "raised"
                     /\ inFlight' = inFlight \ {nRead}
                     /\ UNCHANGED <<idx, pil_images, inferArgs>>
                ELSE /\ pil_images' = images
                     /\ idx' = idx + 1
                     /\ IF idx < Len(event.frames.ids)
                          THEN UNCHANGED <<pc, error, listenEnd, inFlight,
                                           inferArgs>>
                          ELSE IF NoFramesDownloaded(images)
                            THEN /\ Raise("ValueError") /\ listenEnd' = "raised"
                                 /\ inFlight' = inFlight \ {nRead}
                                 /\ UNCHANGED inferArgs
                            ELSE IF event.metadata.shape = "badtype"
                              THEN /\ Raise("TypeError") /\ listenEnd' = "raised"
                                   /\ inFlight' = inFlight \ {nRead}
                                   /\ UNCHANGED inferArgs
                              ELSE /\ pc' = "infer"
                                   /\ inferArgs' = VideoMessage(images, event.metadata)
                                   /\ UNCHANGED <<error, listenEnd, inFlight>>
    /\ UNCHANGED <<ws, conn, pending, sent, nRead, modelLoaded, worker_id,
                   worker_key, reg, lastMsg, event, summary, curEmits, lastEmit,
                   emitLog, keyLog,
                   response, tsVars>>

\* process_frame_batch_event.py:84-144  the inference capability and the
\* summary built from its output
Infer(ok) ==
    /\ pc = "infer"
    /\ ok => modelLoaded
    /\ IF ok
         THEN /\ summary' = [made |-> TRUE,
                             service_id |-> event.service_id,
                             frame_count |-> FrameCount(pil_images),
                             duration_seconds |-> DurationOf(event.metadata)]
              /\ pc' = "emit"
              /\ UNCHANGED <<error, listenEnd, inFlight>>
         ELSE /\ Raise("InferenceError") /\ listenEnd' = "raised"
              /\ inFlight' = inFlight \ {nRead}
              /\ UNCHANGED summary
    /\ UNCHANGED <<ws, conn, pending, sent, nRead, modelLoaded, worker_id,
                   worker_key, reg, lastMsg, event, idx, pil_images, fetchLog,
                   curEmits, lastEmit, emitLog, keysUsed, inferArgs, keyLog,
                   response, tsVars>>

\* main.py:74, 80-97  emit_event, then back to the head of the loop; the
\* locals of the finished batch are released
Emit(outcome) ==
    /\ pc = "emit"
    /\ lastEmit' = [id |-> nRead, key |-> HeaderKey(worker_key),
                    status |-> outcome, body |-> summary]
    /\ emitLog' = Append(emitLog, nRead)
    /\ curEmits' = curEmits + 1
    /\ keysUsed' = keysUsed \cup {HeaderKey(worker_key)}
    /\ inFlight' = inFlight \ {nRead}
    /\ IF EmitRaises(outcome)
         THEN /\ Raise("RequestException") /\ listenEnd' = "raised"
              /\ UNCHANGED <<event, idx, pil_images, fetchLog, summary,
                             inferArgs>>
         ELSE /\ pc' = "recv"
              /\ event' = NoEvent /\ idx' = 1 /\ pil_images' = <<>>
              /\ fetchLog' = <<>> /\ summary' = NoSummary
              /\ inferArgs' = NoCall
              /\ UNCHANGED <<error, listenEnd>>
    /\ UNCHANGED <<ws, conn, pending, sent, nRead, modelLoaded, worker_id,
                   worker_key, reg, lastMsg, keyLog,
                   response, tsVars>>

\* main.py:106-108  finally: close the connection if one was opened; by now
\* the frames of listen and process_frame_batch_event are unwound
Finally ==
    /\ pc = "finally"
    /\ pc' = "done"
    /\ IF ShouldClose(ws)
         THEN /\ ws' = "closed"
              /\ conn' = "closed"
         ELSE UNCHANGED <<ws, conn>>
    /\ event' = NoEvent /\ idx' = 1 /\ pil_images' = <<>> /\ fetchLog' = <<>>
    /\ summary' = NoSummary /\ inferArgs' = NoCall
    /\ UNCHANGED <<pending, sent, nRead, modelLoaded, worker_id, worker_key, reg,
                   lastMsg, curEmits, lastEmit, emitLog, inFlight, keysUsed,
                   error, listenEnd, keyLog,
                   response, tsVars>>

\* main.py:104-105  a shutdown interrupt at a suspension point: run()
\* catches KeyboardInterrupt; when the event loop delivers the interrupt as
\* a cancellation of the task, the exception passes through.  Either way the
\* frames of process_frame_batch_event and listen are unwound.
Interrupt(caught) ==
    /\ pc \in {"start", "register", "awaiting", "recv", "fetch", "infer", "emit"}
    /\ pc' = "finally"
    /\ error' = IF caught THEN "none" ELSE "CancelledError"
    /\ listenEnd' = IF pc \in {"recv", "fetch", "infer", "emit"}
                      THEN "interrupted" ELSE listenEnd
    /\ inFlight' = inFlight \ {nRead}
    /\ event' = NoEvent /\ idx' = 1 /\ pil_images' = <<>> /\ fetchLog' = <<>>
    /\ summary' = NoSummary /\ inferArgs' = NoCall
    /\ UNCHANGED <<ws, conn, pending, sent, nRead, modelLoaded, worker_id,
                   worker_key, reg, lastMsg, curEmits, lastEmit, emitLog,
                   keysUsed, keyLog,
                   response, tsVars>>

Next ==
    \/ RelaySend
    \/ RelayClose
    \/ Connect
    \/ RegisterSend
    \/ \E m \in Messages : RegisterRecv(m)
    \/ RegisterClosed
    \/ \E m \in Messages : ListenRecv(m)
    \/ \E kind \in CloseKinds : ListenClosed(kind)
    \/ \E o \in FetchOutcomes : FetchFrame(o)
    \/ \E ok \in BOOLEAN : Infer(ok)
    \/ \E o \in EmitOutcomes : Emit(o)
    \/ \E caught \in BOOLEAN : Interrupt(caught)
    \/ Finally

Spec == Init /\ [][Next]_vars

TypeOK ==
    /\ response \in {"none", "registered", "frame_batch", "other", "notjson"}
    /\ pc \in {"start", "register", "awaiting", "recv", "fetch", "infer", "emit",
               "finally", "done"}
    /\ ws \in {"None", "open", "closed"}
    /\ pending \in 0..MaxMsgs /\ sent \in 0..MaxMsgs /\ nRead \in 0..MaxMsgs
    /\ worker_key \in Keys \cup {Unset}
    /\ Len(pil_images) <= MaxFrames

\* ------------------------------------------- the timestamp computation
\* rationals are pairs <<numerator, denominator>> in lowest terms
RECURSIVE GCD(_, _)
GCD(a, b) == IF b = 0 THEN a ELSE GCD(b, a % b)

Norm(r) ==
    LET g == GCD(r[1], r[2])
    IN  IF g = 0 THEN r ELSE <<r[1] \div g, r[2] \div g>>

RatDiv(i, r) == Norm(<<i * r[2], r[1]>>)                \* i / r
RatMean(a, b) == Norm(<<a[1] * b[2] + b[1] * a[2], 2 * a[2] * b[2]>>)  \* (a + b) / 2

Durations == {0, 45}   \* duration_seconds of the simulated batch

\* test_custom_fps.py:35-38  the effective FPS
EffectiveFps(n, duration) ==
    IF duration > 0 /\ n > 1 THEN Norm(<<n - 1, duration>>) ELSE <<DefaultFps, 1>>

\* test_custom_fps.py:94  list(range(num_frames))
FrameIndices(n) == [i \in 1..n |-> i - 1]

\* test_custom_fps.py:97-98  how many copies of the last index are appended
PadCountAlways(len, m) == m - (len % m)
PadCount(len, m) == IF len % m # 0 THEN m - (len % m) ELSE 0

\* test_custom_fps.py:97-98  frames_indices.extend([frames_indices[-1]] * ...)
PadIndices(indices, m) ==
    LET len == Len(indices)
    IN  [i \in 1..(len + PadCount(len, m)) |->
            IF i <= len THEN indices[i] ELSE indices[len]]

\* test_custom_fps.py:101  [idx / effective_fps for idx in frames_indices]
RawTimestamps(indices, fps) == [i \in 1..Len(indices) |-> RatDiv(indices[i], fps)]

\* test_custom_fps.py:106  range(0, len(timestamps), merge_size), 0-based starts
GroupStarts(len, m) == [k \in 1..((len + m - 1) \div m) |-> (k - 1) * m]

\* the mean of all the elements of s[from..to]
RatAdd(a, b) == Norm(<<a[1] * b[2] + b[1] * a[2], a[2] * b[2]>>)
RECURSIVE RatSum(_, _, _)
RatSum(s, from, to) ==
    IF from > to THEN <<0, 1>> ELSE RatAdd(s[from], RatSum(s, from + 1, to))
AveragedOverGroup(timestamps, m) ==
    LET starts == GroupStarts(Len(timestamps), m)
    IN  [k \in 1..Len(starts) |->
            LET sum == RatSum(timestamps, starts[k] + 1, starts[k] + m)
            IN  Norm(<<sum[1], sum[2] * m>>)]

\* test_custom_fps.py:104-107  mean of the first and the last of each group
AveragedTimestamps(timestamps, m) ==
    LET starts == GroupStarts(Len(timestamps), m)
    IN  [k \in 1..Len(starts) |->
            RatMean(timestamps[starts[k] + 1], timestamps[starts[k] + m])]

TSInit ==
    /\ SessionInit /\ modelLoaded = FALSE
    /\ tsPc = "fps" /\ tsN \in 1..MaxN /\ tsM \in 1..MaxM /\ tsDuration \in Durations
    /\ tsFps = <<DefaultFps, 1>> /\ tsIndices = <<>> /\ tsRaw = <<>> /\ tsOut = <<>>

TSComputeFps ==
    /\ tsPc = "fps"
    /\ tsFps' = EffectiveFps(tsN, tsDuration)
    /\ tsIndices' = FrameIndices(tsN)
    /\ tsPc' = "pad"
    /\ UNCHANGED <<sessionVars, tsN, tsM, tsDuration, tsRaw, tsOut>>

TSPad ==
    /\ tsPc = "pad"
    /\ tsIndices' = PadIndices(tsIndices, tsM)
    /\ tsPc' = "raw"
    /\ UNCHANGED <<sessionVars, tsN, tsM, tsDuration, tsFps, tsRaw, tsOut>>

TSRaw ==
    /\ tsPc = "raw"
    /\ tsRaw' = RawTimestamps(tsIndices, tsFps)
    /\ tsPc' = "average"
    /\ UNCHANGED <<sessionVars, tsN, tsM, tsDuration, tsFps, tsIndices, tsOut>>

TSAverage ==
    /\ tsPc = "average"
    /\ tsOut' = AveragedTimestamps(tsRaw, tsM)
    /\ tsPc' = "done"
    /\ UNCHANGED <<sessionVars, tsN, tsM, tsDuration, tsFps, tsIndices, tsRaw>>

TSNext == TSComputeFps \/ TSPad \/ TSRaw \/ TSAverage

SpecTS == TSInit /\ [][TSNext]_vars

\* the least k with k * m >= n
Ceil(n, m) == CHOOSE k \in 0..n : k * m >= n /\ (k - 1) * m < n

\* ================================================================ claims
IsIncreasing(s) == \A i \in 1..Len(s) : \A j \in 1..Len(s) : i < j => s[i] < s[j]

\* section 4.2: a non-success response code or a network/timeout error
FetchFailed(outcome) == outcome \in {"non200", "timeout"}

\* the download loop of the current batch has issued all its requests
LoopFinished ==
    /\ event.shape = "dict" /\ event.frames.shape # "notlist"
    /\ Len(fetchLog) = Len(event.frames.ids)

\* frames of the current batch fetched with status 200 and image bytes
SuccessCount == Cardinality({i \in 1..Len(fetchLog) : fetchLog[i].outcome = "ok"})

BatchFailures == {"ValueError", "UnidentifiedImageError", "InferenceError"}

\* C1: a frame_batch event whose processing fails (no frame fetched, a frame
\* that cannot be decoded, or a failed inference) leaves the session
\* Listening: it does not end run() with that failure.
C1_BatchErrorsKeepListening ==
    error \in BatchFailures => SessionState = "Listening"

\* C2: once every fetch of a batch has failed (or the frame list is empty),
\* the batch ends with the "No frames downloaded" failure, no summary is
\* produced and no POST /events is issued for it.
C2_EmptyBatchNoEmit ==
    (LoopFinished /\ \A i \in 1..Len(fetchLog) : FetchFailed(fetchLog[i].outcome))
        => /\ error = "ValueError"
           /\ ~summary.made
           /\ curEmits = 0 /\ lastEmit = NoEmit

C2_Witness ==
    /\ LoopFinished /\ Len(fetchLog) = 2
    /\ \A i \in 1..Len(fetchLog) : FetchFailed(fetchLog[i].outcome)
    /\ pc = "finally" /\ error = "ValueError"

\* C3: the frame_count of every summary is the number of frames that were
\* fetched successfully, at least 1 and at most the number requested.
C3_FrameCountIsFetched ==
    summary.made =>
        /\ summary.frame_count = SuccessCount
        /\ 1 <= summary.frame_count
        /\ summary.frame_count <= Len(event.frames.ids)

C3_Witness ==
    /\ summary.made /\ pc = "emit"
    /\ Len(event.frames.ids) = 2 /\ summary.frame_count = 1
    /\ \E i \in 1..Len(fetchLog) : FetchFailed(fetchLog[i].outcome)

\* C4: after a registration response of another type than "registered",
\* worker_id and worker_key stay unset and no fetch and no emit request is
\* ever issued, whatever frame_batch events arrive.
C4_RejectedNeverFetches ==
    reg = "rejected" =>
        /\ worker_id = Unset /\ worker_key = Unset
        /\ fetchLog = <<>> /\ emitLog = <<>> /\ keysUsed = {}

C4_Witness ==
    /\ reg = "rejected" /\ pc = "recv"
    /\ lastMsg = [type |-> "frame_batch", shape |-> "dict"]

C6_AbnormalClosePropagates ==
    /\ listenEnd = "closed_ok" => error = "none"
    /\ listenEnd = "closed_err" => error = "ConnectionClosed"

\* C6 amended: listen returns without error when the connection closes,
\* normally or abnormally; ConnectionClosed never reaches its caller.
C6_CloseEndsListenCleanly ==
    listenEnd \in {"closed_ok", "closed_err"} =>
        error = "none" /\ pc \in {"finally", "done"}

C6_Witness ==
    listenEnd = "closed_err" /\ pc = "done" /\ error = "none" /\ nRead >= 2

\* the event handed to process_frame_batch_event does not have the schema
MalformedEvent ==
    \/ event.shape = "nondict"
    \/ /\ event.shape = "dict"
       /\ \/ event.frames.shape \in {"missing", "notlist"}
          \/ event.metadata.shape = "badtype"

\* C7: a frame_batch message with a malformed schema is skipped: the session
\* does not become Errored.
C7_MalformedIsSkipped ==
    (lastMsg.type = "frame_batch" /\ MalformedEvent) => SessionState # "Errored"

\* C8: the next message is read only when no batch is in progress, at most
\* one batch is in progress, and POSTs are issued in the order in which
\* their events were received.
C8_Sequential ==
    /\ [](Cardinality(inFlight) <= 1 /\ IsIncreasing(emitLog))
    /\ [][nRead' > nRead => inFlight = {}]_vars

C8_Witness ==
    pending > 0 /\ pc = "emit" /\ inFlight = {nRead} /\ summary.made

\* C9: every POST that fails (non-200, timeout, network error) is the only
\* request of its batch, raises nothing, and is followed by the head of the
\* listen loop.
C9_EmitFailureNotFatal ==
    [][(emitLog' # emitLog /\ lastEmit'.status # "200") =>
          /\ pc' = "recv" /\ error' = "none" /\ listenEnd' = "none"
          /\ curEmits' = 1 /\ Len(emitLog') = Len(emitLog) + 1]_vars

C9_Witness ==
    /\ lastEmit.status \in {"timeout", "neterror"} /\ curEmits = 1
    /\ pc = "recv" /\ error = "none" /\ pending > 0

\* C10: for n frames and merge group size m the computation returns
\* ceil(n / m) timestamps.
C10_TimestampCount ==
    tsPc = "done" => Len(tsOut) = Ceil(tsN, tsM)

C10_Witness ==
    tsPc = "done" /\ tsN = 7 /\ tsM = 3 /\ Len(tsIndices) = 9 /\ Len(tsOut) = 3

\* C11: the timestamp of group k is the mean of the first and the last raw
\* timestamp of the group in the padded sequence,
\* (idx[k*m] + idx[k*m+m-1]) / (2 * effectiveFps); for n = 10, duration = 45
\* and m = 2 the FPS is 9/45 = 1/5, the raw timestamps are 0, 5, ..., 45 and
\* the result is 2.5, 12.5, 22.5, 32.5, 42.5.
C11_FirstLastMean ==
    tsPc = "done" =>
        /\ \A k \in 1..Len(tsOut) :
              tsOut[k] = Norm(<<(tsIndices[(k - 1) * tsM + 1] + tsIndices[k * tsM])
                                    * tsFps[2],
                                2 * tsFps[1]>>)
        /\ (tsN = 10 /\ tsDuration = 45 /\ tsM = DefaultMergeSize) =>
              /\ tsFps = <<1, 5>>
              /\ tsRaw = [i \in 1..10 |-> <<5 * (i - 1), 1>>]
              /\ tsOut = <<<<5, 2>>, <<25, 2>>, <<45, 2>>, <<65, 2>>, <<85, 2>>>>

C11_Witness ==
    /\ tsPc = "done" /\ tsN = 10 /\ tsDuration = 45 /\ tsM = DefaultMergeSize
    /\ tsOut[5] = <<85, 2>>

\* the effective FPS the claim C12 describes
ClaimedFps(md, frameCount) ==
    IF md.shape = "dict" /\ md.hasFps
      THEN md.fps
      ELSE EffectiveFps(frameCount, DurationOf(md))

\* C12: the FPS handed to the inference capability is the metadata fps when
\* the event has one, else (frameCount - 1) / durationSeconds when
\* durationSeconds > 0 and frameCount > 1, else 2.0.
C12_FpsDerivedWhenAbsent ==
    inferArgs.made =>
        inferArgs.fps = ClaimedFps(event.metadata, Len(inferArgs.frames))

\* C13: the preamble is non-empty exactly when start_time > 0, and then it
\* states start_time and start_time + duration_seconds with one decimal
\* (10 and 5 give "10.0s to 15.0s").
C13_PreambleIffStarted ==
    inferArgs.made =>
        LET md == event.metadata
            st == IF md.shape = "dict" THEN md.start_time ELSE 0
            d == IF md.shape = "dict" THEN md.duration_seconds ELSE 0
        IN  /\ inferArgs.preamble.empty <=> ~(st > 0)
            /\ st > 0 => /\ inferArgs.preamble.from = <<st, 0>>
                         /\ inferArgs.preamble.to = <<st + d, 0>>
            /\ md = MetaFull =>
                  inferArgs.preamble = [empty |-> FALSE, from |-> <<10, 0>>,
                                        to |-> <<15, 0>>]

C13_Witness ==
    /\ inferArgs.made /\ pc = "infer" /\ event.metadata = MetaFull
    /\ inferArgs.preamble.from = <<10, 0>> /\ inferArgs.preamble.to = <<15, 0>>

\* C14: no diagnostic output shows a key in full: at most a prefix of
\* KeyPrefixLen characters, shorter than the key, is printed.
C14_KeyNeverPrintedInFull ==
    keyLog <= KeyPrefixLen /\ keyLog < KeyLength

\* C15: reading a message of another type than frame_batch changes nothing:
\* no fetch, no emit, same credentials and connection, still at the head of
\* the listen loop.
C15_OtherTypesOnlyObserved ==
    [][(pc = "recv" /\ nRead' = nRead + 1
          /\ lastMsg'.type \in {"other", "registered"}) =>
         /\ pc' = "recv" /\ error' = "none"
         /\ UNCHANGED <<worker_id, worker_key, ws, conn, event, fetchLog,
                        emitLog, keysUsed, inFlight>>]_vars

C15_Witness ==
    /\ lastMsg = [type |-> "other", shape |-> "dict"]
    /\ reg = "ok" /\ pc = "recv" /\ keysUsed = {}

\* the identifiers of the GET requests of the current batch, in order
RequestedIds == [i \in 1..Len(fetchLog) |-> fetchLog[i].uuid]

\* a downloaded frame could not be decoded: the batch was cut short
DecodeAborted == \E i \in 1..Len(fetchLog) : fetchLog[i].outcome = "undecodable"

RECURSIVE KeptFrames(_)
KeptFrames(i) ==
    IF i > Len(fetchLog) THEN <<>>
    ELSE (IF fetchLog[i].outcome = "ok" THEN <<event.frames.ids[i]>> ELSE <<>>)
            \o KeptFrames(i + 1)

\* C17: the frames handed to the inference capability are the frames of the
\* event that were fetched, each position once, in the order of the event.
C17_FramesKeepOrder ==
    inferArgs.made => inferArgs.frames = KeptFrames(1)

C17_Witness ==
    /\ inferArgs.made /\ event.frames.ids = <<"f2", "f1">>
    /\ inferArgs.frames = <<"f2", "f1">>

\* C18: worker_id and worker_key change only once, from unset, in the
\* registration step that takes a "registered" response; every GET and POST
\* carries that key.
C18_CredentialsSetOnce ==
    /\ [][(worker_key' # worker_key \/ worker_id' # worker_id) =>
            /\ worker_key = Unset /\ worker_id = Unset
            /\ pc = "awaiting" /\ reg = "none" /\ reg' = "ok"
            /\ worker_key' \in Keys /\ worker_id' \in WorkerIds]_vars
    /\ [](/\ keysUsed # {} => (reg = "ok" /\ keysUsed = {worker_key})
          /\ \A i \in 1..Len(fetchLog) : fetchLog[i].key = worker_key
          /\ lastEmit # NoEmit => lastEmit.key = worker_key)

C18_Witness ==
    /\ worker_key = "key-B" /\ keysUsed = {"key-B"}
    /\ lastEmit.key = "key-B" /\ nRead = 3

\* C19: a frame_batch event gets at most one summary and one POST; a batch
\* that finishes (frames fetched, inference succeeded) has issued exactly one
\* POST, whose service_id and duration_seconds are those of the event.
C19_ConsumedOnce ==
    /\ [](curEmits <= 1 /\ IsIncreasing(emitLog))
    /\ [][emitLog' # emitLog =>
            /\ summary.made /\ lastEmit'.body = summary
            /\ curEmits = 0 /\ curEmits' = 1
            /\ emitLog' = Append(emitLog, nRead)
            /\ lastEmit'.body.service_id = event.service_id
            /\ lastEmit'.body.duration_seconds = event.metadata.duration_seconds]_vars
    /\ [][(pc = "emit" /\ pc' = "recv") => emitLog' # emitLog]_vars
    /\ [][(summary' # summary /\ summary'.made) =>
            (~summary.made /\ pc = "infer" /\ pc' = "emit"
               /\ Len(pil_images) >= 1)]_vars

C19_Witness ==
    /\ lastEmit.status = "200" /\ curEmits = 1 /\ pc = "recv"
    /\ lastEmit.body.service_id = "cam2" /\ lastEmit.body.duration_seconds = 5

\* C20: when run() has ended and connect had succeeded, the connection has
\* been closed, whichever way run() ended.
C20_ConnectionClosedAtEnd ==
    (pc = "done" /\ ws # "None") => (ws = "closed" /\ conn = "closed")

C20_Witness ==
    pc = "done" /\ ws = "closed" /\ error = "ValueError" /\ listenEnd = "raised"

\* C21: the first message read after the register request is read by
\* register and taken as the response whatever its type; it is never
\* dispatched, register reads no second message, and when it was not a
\* "registered" reply the credentials stay unset for the rest of the run,
\* also when listen reads a "registered" message later.
C21_FirstMessageIsTheResponse ==
    /\ [][nRead' # nRead =>
            /\ (nRead = 0) <=> (pc = "awaiting")
            /\ nRead = 0 =>
                  /\ response = "none" /\ response' # "none"
                  /\ pc' \in {"recv", "finally"}
                  /\ UNCHANGED <<event, fetchLog, emitLog, keysUsed, inFlight,
                                 inferArgs>>]_vars
    /\ [](response \in {"frame_batch", "other", "notjson"} =>
            /\ worker_id = Unset /\ worker_key = Unset /\ reg # "ok"
            /\ fetchLog = <<>> /\ emitLog = <<>> /\ keysUsed = {}
            /\ inFlight = {})

C21_Witness ==
    /\ response = "frame_batch" /\ nRead = 2 /\ pc = "recv"
    /\ lastMsg.type = "registered" /\ worker_key = Unset

====
